---- MODULE Spec2Model ----
(***************************************************************************)
(* Model of mtm_computer.Computer, the CircuitPython I/O library of the    *)
(* Music Thing Modular Workshop Computer                                   *)
(* (src/Demonstrations+HelloWorlds/CircuitPython/mtm_computer.py).         *)
(*                                                                         *)
(* Three specifications share one set of variables:                        *)
(*   SpecMux  the constructor's priming loop, update() and the reads of    *)
(*            the multiplexed inputs;                                      *)
(*   SpecDac  the audio outputs (MCP4822 on the shared SPI bus) and the    *)
(*            audio inputs, from the state the constructor leaves;         *)
(*   SpecIO   the PWM CV outputs, the pulse lines and                      *)
(*            pulse_outs_to_audio(), from the state the constructor leaves.*)
(*                                                                         *)
(* Python floats are IEEE-754 binary64; the smoothing expression           *)
(* int(s*old + (1-s)*raw) is evaluated bit-exactly on multi-limb integers  *)
(* (TLC integers are 32 bits wide).                                        *)
(***************************************************************************)
EXTENDS Integers, Sequences, FiniteSets, TLC

VARIABLES
    analog,            \* self.analog: the 8 channel slots
    mux_count,         \* self.mux_count: the mux phase
    mux_A, mux_B,      \* levels of the two mux select lines (0/1)
    ctor_i,            \* priming calls __init__ has made (loop variable i, line 136)
    nUpdates,          \* history: update() calls made so far, priming included
    serviceLog,        \* history: the set of slots each update() so far has written
    audio_out_value,   \* self._audio_1_out_value, self._audio_2_out_value
    spi_locked,        \* the DAC SPI bus lock is held by another user of the bus
    dac_cs,            \* level of the DAC chip-select line
    dac_reg,           \* the MCP4822's two input registers (the physical output codes)
    dac_req,           \* history: the code each audio setter last handed to dac_write
    dac_events,        \* history: bus events of the most recent dac_write call
    cv_pwm_duty,       \* self.cv_1_pwm.duty_cycle, self.cv_2_pwm.duty_cycle
    pulse_out_pin,     \* self._pulse_1_out_pin, self._pulse_2_out_pin
    audio,             \* self.audio: "absent", "created", or "recreated" by a repeated call
    leds,              \* self.leds[0..5].duty_cycle
    led_bright,        \* history: the brightness last handed to gamma_correct for each LED
    lastWritten,       \* history: the value last assigned to each output property
    last               \* history: the most recent call, its arguments and its outcome

muxVars == <<analog, mux_count, mux_A, mux_B, ctor_i, nUpdates, serviceLog>>
dacVars == <<audio_out_value, spi_locked, dac_cs, dac_reg, dac_req, dac_events>>
ioVars  == <<cv_pwm_duty, pulse_out_pin, audio>>
ledVars == <<leds, led_bright>>
vars    == <<muxVars, dacVars, ioVars, ledVars, lastWritten, last>>

----------------------------------------------------------------------------
(* Bounds of the model and the inputs the environment supplies.            *)

MaxUpdates == 6

Mux1Samples == {0, 65535}
Mux2Samples == {3, 5}
AudioSamples == {0, 20000, 65535}
AudioVals == {0, 15, 16, 45535, 65535, 65536}
CvVals == {-1, 0, 20000, 65535, 65536}
LoopAudioVals == {45535}
LoopCvVals == {20000}
LedRaws == {0, 32768, 32769, 40000, 65535}
GammaInputs == {-3, 0, 1, 255, 256, 361, 362, 46341, 65534, 65535, 65536, 70000}

----------------------------------------------------------------------------
(* Program constants.                                                      *)

CHANNEL_COUNT == 8
PrimeCalls == 4
CVzeroPoint == 2085 * 16
DAC_config_chan_A_gain == 12288
DAC_config_chan_B_gain == 45056

\* marks a DAC register or request that no write has set yet
NoCode == -1

----------------------------------------------------------------------------
(* IEEE-754 binary64 arithmetic on naturals held as little-endian limbs of *)
(* LimbBits bits, in units of 2^-54.                                       *)

LimbBits == 14
LimbBase == 2^LimbBits
NLimbs == 6
Limbs == 1..NLimbs

RECURSIVE Normalize(_, _, _)
Normalize(a, i, carry) ==
    IF i > NLimbs THEN <<>>
    ELSE LET t == a[i] + carry
         IN  <<t % LimbBase>> \o Normalize(a, i + 1, t \div LimbBase)

BigFromSmall(x) == Normalize([i \in Limbs |-> IF i = 1 THEN x ELSE 0], 1, 0)
BigAdd(a, b) == Normalize([i \in Limbs |-> a[i] + b[i]], 1, 0)
BigSub(a, b) == Normalize([i \in Limbs |-> a[i] - b[i]], 1, 0)
BigMulSmall(a, x) == Normalize([i \in Limbs |-> a[i] * x], 1, 0)

BitLenSmall(x) == CHOOSE n \in 0..LimbBits : x < 2^n /\ (n = 0 \/ x >= 2^(n - 1))
TopLimb(a) == IF \A i \in Limbs : a[i] = 0 THEN 0
              ELSE CHOOSE i \in Limbs : a[i] # 0 /\ \A j \in Limbs : j > i => a[j] = 0
BitLen(a) == IF TopLimb(a) = 0 THEN 0
             ELSE (TopLimb(a) - 1) * LimbBits + BitLenSmall(a[TopLimb(a)])
Low28(a) == a[1] + a[2] * LimbBase

\* round to a 53-bit significand, ties to even
RoundTo53(a) ==
    LET e == BitLen(a) - 53
    IN  IF e <= 0 THEN a
        ELSE LET r    == Low28(a) % (2^e)
                 half == 2^(e - 1)
                 odd  == (Low28(a) \div (2^e)) % 2 = 1
                 down == BigSub(a, BigFromSmall(r))
                 up   == BigAdd(down, BigFromSmall(2^e))
             IN  IF r > half \/ (r = half /\ odd) THEN up ELSE down

\* int(): the integer part of a non-negative float
FloatToInt(a) == (a[4] + a[5] * LimbBase + a[6] * LimbBase * LimbBase) \div 4096

FloatOne == <<0, 0, 0, 4096, 0, 0>>
\* the literal 0.3 = 0x1.3333333333333p-2
analog_smooth_amount == <<13107, 3276, 13107, 1228, 0, 0>>

FloatMulInt(f, x) == RoundTo53(BigMulSmall(f, x))
FloatAdd(f, g) == RoundTo53(BigAdd(f, g))
FloatSub(f, g) == RoundTo53(BigSub(f, g))

\* fault: the weights of the old value and of the sample are exchanged
SmoothSwapped(old, raw) ==
    LET s == analog_smooth_amount
    IN  FloatToInt(FloatAdd(FloatMulInt(s, raw), FloatMulInt(FloatSub(FloatOne, s), old)))
\* int(s*old + (1-s)*raw)
Smooth(old, raw) ==
    LET s == analog_smooth_amount
    IN  FloatToInt(FloatAdd(FloatMulInt(s, old), FloatMulInt(FloatSub(FloatOne, s), raw)))

----------------------------------------------------------------------------
(* MuxScanner                                                              *)

Slots == 0..(CHANNEL_COUNT - 1)

\* fault: phase 2 stores the bus-2 sample in the CV 2 slot
mux_read_wrong_slot(an, num, v1, v2) ==
    IF num = 0 THEN
        [an EXCEPT ![4] = Smooth(an[4], v1), ![2] = Smooth(an[2], v2)]
    ELSE IF num = 1 THEN
        [an EXCEPT ![5] = Smooth(an[5], v1), ![3] = Smooth(an[3], v2)]
    ELSE IF num = 2 THEN
        [an EXCEPT ![6] = Smooth(an[6], v1), ![3] = Smooth(an[3], v2)]
    ELSE IF num = 3 THEN
        [an EXCEPT ![7] = Smooth(an[7], v1), ![3] = Smooth(an[3], v2)]
    ELSE an
mux_read(an, num, v1, v2) ==
    IF num = 0 THEN
        [an EXCEPT ![4] = Smooth(an[4], v1), ![2] = Smooth(an[2], v2)]
    ELSE IF num = 1 THEN
        [an EXCEPT ![5] = Smooth(an[5], v1), ![3] = Smooth(an[3], v2)]
    ELSE IF num = 2 THEN
        [an EXCEPT ![6] = Smooth(an[6], v1), ![2] = Smooth(an[2], v2)]
    ELSE IF num = 3 THEN
        [an EXCEPT ![7] = Smooth(an[7], v1), ![3] = Smooth(an[3], v2)]
    ELSE an

\* the slot mux_read fills from analog_mux1 / analog_mux2 when called with num
Bus1Slots ==
    [num \in 0..3 |->
        CHOOSE i \in Slots : mux_read([j \in Slots |-> 0], num, 65535, 0)[i] # 0]
Bus2Slots ==
    [num \in 0..3 |->
        CHOOSE i \in Slots : mux_read([j \in Slots |-> 0], num, 0, 65535)[i] # 0]
Bus1Slot(num) == Bus1Slots[num]
Bus2Slot(num) == Bus2Slots[num]

\* fault: the phase wraps after three steps
NextPhaseMod3(count) == (count + 1) % 3
\* fault: the phase advances by two
NextPhaseSkipping(count) == (count + 2) % 4
\* (self.mux_count + 1) % 4
NextPhase(count) == (count + 1) % 4

Event(name, arg) == [ev |-> name, arg |-> arg]

\* fault: the buses are sampled before the select lines are set
UpdateEventsReadFirst(num) ==
    <<Event("sample", <<1>>), Event("store", <<Bus1Slot(num)>>),
      Event("sample", <<2>>), Event("store", <<Bus2Slot(num)>>),
      Event("mux_A", <<num % 2>>), Event("mux_B", <<(num \div 2) % 2>>),
      Event("mux_count", <<NextPhase(num)>>)>>
\* the steps of update() in program order: mux_update(num), mux_read(num),
\* then the assignment to mux_count
UpdateEvents(num) ==
    <<Event("mux_A", <<num % 2>>), Event("mux_B", <<(num \div 2) % 2>>),
      Event("sample", <<1>>), Event("store", <<Bus1Slot(num)>>),
      Event("sample", <<2>>), Event("store", <<Bus2Slot(num)>>),
      Event("mux_count", <<NextPhase(num)>>)>>

update ==
    /\ nUpdates < MaxUpdates
    /\ \E v1 \in Mux1Samples, v2 \in Mux2Samples :
         /\ mux_A' = mux_count % 2
         /\ mux_B' = (mux_count \div 2) % 2
         /\ analog' = mux_read(analog, mux_count, v1, v2)
         /\ last' = [op |-> "update", phase |-> mux_count, old |-> analog,
                     raw1 |-> v1, raw2 |-> v2, events |-> UpdateEvents(mux_count)]
    /\ serviceLog' = Append(serviceLog, {Bus1Slot(mux_count), Bus2Slot(mux_count)})
    /\ mux_count' = NextPhase(mux_count)
    /\ ctor_i' = IF ctor_i < PrimeCalls THEN ctor_i + 1 ELSE ctor_i
    /\ nUpdates' = nUpdates + 1
    /\ UNCHANGED <<ledVars, dacVars, ioVars, lastWritten>>

Constructed == ctor_i = PrimeCalls

\* fault: a read advances the phase
ReadSlotAdvancing(name, value) ==
    /\ Constructed
    /\ last' = [op |-> name, ret |-> value]
    /\ mux_count' = NextPhase(mux_count)
    /\ UNCHANGED <<ledVars, analog, mux_A, mux_B, ctor_i, nUpdates, serviceLog,
                   dacVars, ioVars, lastWritten>>
ReadSlot(name, value) ==
    /\ Constructed
    /\ last' = [op |-> name, ret |-> value]
    /\ UNCHANGED <<ledVars, muxVars, dacVars, ioVars, lastWritten>>

knob_main == ReadSlot("knob_main", analog[4])
knob_x    == ReadSlot("knob_x", analog[5])
knob_y    == ReadSlot("knob_y", analog[6])
switch    == ReadSlot("switch", analog[7])
cv_1_in   == ReadSlot("cv_1_in", 65535 - analog[2])
cv_2_in   == ReadSlot("cv_2_in", 65535 - analog[3])

----------------------------------------------------------------------------
(* Bit operations of Python integers (two's complement, unbounded).        *)

RECURSIVE BitAnd(_, _)
BitAnd(x, m) ==
    IF m = 0 THEN 0
    ELSE (x % 2) * (m % 2) + 2 * BitAnd(x \div 2, m \div 2)

RECURSIVE BitOr(_, _)
BitOr(x, y) ==
    IF x = 0 /\ y = 0 THEN 0
    ELSE (IF x % 2 = 1 \/ y % 2 = 1 THEN 1 ELSE 0) + 2 * BitOr(x \div 2, y \div 2)

ShiftRight(x, n) == x \div (2^n)

Min(a, b) == IF a < b THEN a ELSE b
Max(a, b) == IF a > b THEN a ELSE b

----------------------------------------------------------------------------
(* DacDriver                                                               *)

\* fault: the code is not masked to twelve bits
DacFrameUnmasked(channel, value) ==
    IF channel = 0 THEN DAC_config_chan_A_gain + value
    ELSE DAC_config_chan_B_gain + value
\* DAC_data: control bits + 12-bit data
DacFrame(channel, value) ==
    IF channel = 0 THEN BitOr(DAC_config_chan_A_gain, BitAnd(value, 4095))
    ELSE BitOr(DAC_config_chan_B_gain, BitAnd(value, 4095))

\* fault: the low byte is sent first
DacBytesLowFirst(frame) == <<BitAnd(frame, 255), ShiftRight(frame, 8)>>
\* the two items handed to bytes()
DacBytes(frame) == <<ShiftRight(frame, 8), BitAnd(frame, 255)>>

\* bytes() raises ValueError for an item outside range(256)
BytesRaises(items) == \E i \in 1..Len(items) : items[i] < 0 \/ items[i] > 255

\* the MCP4822 latches a 16-bit frame when chip-select rises: bit 15 selects
\* the register, bits 11..0 are the code
DacLatch(reg, data) ==
    LET frame == data[1] * 256 + data[2]
    IN  [reg EXCEPT ![ShiftRight(frame, 15)] = frame % 4096]

\* fault: the transfer does not depend on the outcome of try_lock
dac_write_without_lock(channel, value) ==
    LET data == DacBytes(DacFrame(channel, value))
    IN  /\ dac_events' = <<Event("try_lock", <<IF spi_locked THEN 0 ELSE 1>>),
                           Event("cs", <<0>>), Event("write", data),
                           Event("cs", <<1>>), Event("unlock", <<>>)>>
        /\ dac_cs' = TRUE
        /\ dac_reg' = DacLatch(dac_reg, data)
        /\ UNCHANGED spi_locked
\* fault: the lock is released before chip-select is raised
dac_write_unlock_first(channel, value) ==
    LET data == DacBytes(DacFrame(channel, value))
    IN  IF ~spi_locked THEN
            /\ dac_events' = <<Event("try_lock", <<1>>), Event("cs", <<0>>),
                               Event("write", data), Event("unlock", <<>>),
                               Event("cs", <<1>>)>>
            /\ dac_cs' = TRUE
            /\ dac_reg' = DacLatch(dac_reg, data)
            /\ UNCHANGED spi_locked
        ELSE
            /\ dac_events' = <<Event("try_lock", <<0>>)>>
            /\ UNCHANGED <<spi_locked, dac_cs, dac_reg>>
\* fault: a failed try_lock prints a message
dac_write_reporting(channel, value) ==
    LET data == DacBytes(DacFrame(channel, value))
    IN  IF ~spi_locked THEN
            /\ dac_events' = <<Event("try_lock", <<1>>), Event("cs", <<0>>),
                               Event("write", data), Event("cs", <<1>>),
                               Event("unlock", <<>>)>>
            /\ dac_cs' = TRUE
            /\ dac_reg' = DacLatch(dac_reg, data)
            /\ UNCHANGED spi_locked
        ELSE
            /\ dac_events' = <<Event("try_lock", <<0>>), Event("print", <<>>)>>
            /\ UNCHANGED <<spi_locked, dac_cs, dac_reg>>
dac_write(channel, value) ==
    LET data == DacBytes(DacFrame(channel, value))
    IN  IF BytesRaises(data) THEN
            /\ dac_events' = <<>>
            /\ UNCHANGED <<spi_locked, dac_cs, dac_reg>>
        ELSE IF ~spi_locked THEN
            /\ dac_events' = <<Event("try_lock", <<1>>), Event("cs", <<0>>),
                               Event("write", data), Event("cs", <<1>>),
                               Event("unlock", <<>>)>>
            /\ dac_cs' = TRUE
            /\ dac_reg' = DacLatch(dac_reg, data)
            /\ UNCHANGED spi_locked
        ELSE
            /\ dac_events' = <<Event("try_lock", <<0>>)>>
            /\ UNCHANGED <<spi_locked, dac_cs, dac_reg>>

AudioOutName(n) == IF n = 1 THEN "audio_1_out" ELSE "audio_2_out"

\* fault: the inversion starts from 4096
AudioCodeFrom4096(value) == 4096 - (value \div 16)
\* the code the setter hands to dac_write
AudioCode(value) == 4095 - (value \div 16)

audio_out_setter(n, value) ==
    /\ Constructed
    /\ audio_out_value' = [audio_out_value EXCEPT ![n] = value]
    /\ dac_req' = [dac_req EXCEPT ![n] = AudioCode(value)]
    /\ dac_write(n - 1, AudioCode(value))
    /\ lastWritten' = [lastWritten EXCEPT ![AudioOutName(n)] = value]
    /\ last' = [op |-> "audio_out_set", n |-> n, arg |-> value,
                locked |-> spi_locked,
                raised |-> BytesRaises(DacBytes(DacFrame(n - 1, AudioCode(value))))]
    /\ UNCHANGED <<ledVars, muxVars, ioVars>>

audio_1_out_set == \E value \in AudioVals : audio_out_setter(1, value)
audio_2_out_set == \E value \in AudioVals : audio_out_setter(2, value)

\* the audio setters as a polling loop uses them, with values of the domain
audio_1_out_loop == \E value \in LoopAudioVals : audio_out_setter(1, value)
audio_2_out_loop == \E value \in LoopAudioVals : audio_out_setter(2, value)

audio_out_getter(n) ==
    /\ Constructed
    /\ last' = [op |-> "audio_out_get", n |-> n, ret |-> audio_out_value[n]]
    /\ UNCHANGED <<ledVars, muxVars, dacVars, ioVars, lastWritten>>

audio_1_out_get == audio_out_getter(1)
audio_2_out_get == audio_out_getter(2)

audio_in(n) ==
    /\ Constructed
    /\ \E raw \in AudioSamples :
         last' = [op |-> "audio_in", n |-> n, raw |-> raw, ret |-> 65535 - raw]
    /\ UNCHANGED <<ledVars, muxVars, dacVars, ioVars, lastWritten>>

audio_1_in == audio_in(1)
audio_2_in == audio_in(2)

\* another user of the shared bus takes / returns the lock (busio.SPI.try_lock, unlock)
spi_try_lock ==
    /\ Constructed
    /\ ~spi_locked
    /\ spi_locked' = TRUE
    /\ last' = [op |-> "spi_try_lock"]
    /\ UNCHANGED <<ledVars, muxVars, audio_out_value, dac_cs, dac_reg, dac_req, dac_events,
                   ioVars, lastWritten>>

spi_unlock ==
    /\ Constructed
    /\ spi_locked
    /\ spi_locked' = FALSE
    /\ last' = [op |-> "spi_unlock"]
    /\ UNCHANGED <<ledVars, muxVars, audio_out_value, dac_cs, dac_reg, dac_req, dac_events,
                   ioVars, lastWritten>>

----------------------------------------------------------------------------
(* CV outputs (PWM) and DigitalIOAdapter                                   *)

CvOutName(n) == IF n = 1 THEN "cv_1_out" ELSE "cv_2_out"
PulseOutName(n) == IF n = 1 THEN "pulse_1_out" ELSE "pulse_2_out"

\* fault: the value is not clamped
CvDutyUnclamped(val) == 65535 - val
\* 65535 - min(max(int(val), 0), 65535)
CvDuty(val) == 65535 - Min(Max(val, 0), 65535)

cv_out_setter(n, val) ==
    /\ Constructed
    /\ cv_pwm_duty' = [cv_pwm_duty EXCEPT ![n] = CvDuty(val)]
    /\ lastWritten' = [lastWritten EXCEPT ![CvOutName(n)] = val]
    /\ last' = [op |-> "cv_out_set", n |-> n, arg |-> val]
    /\ UNCHANGED <<ledVars, muxVars, dacVars, pulse_out_pin, audio>>

cv_1_out_set == \E val \in CvVals : cv_out_setter(1, val)
cv_2_out_set == \E val \in CvVals : cv_out_setter(2, val)

\* the CV setters as a polling loop uses them, with values of the domain
cv_1_out_loop == \E val \in LoopCvVals : cv_out_setter(1, val)
cv_2_out_loop == \E val \in LoopCvVals : cv_out_setter(2, val)

\* fault: the duty cycle is returned without the inversion
cv_out_getter_duty(n) ==
    /\ Constructed
    /\ last' = [op |-> "cv_out_get", n |-> n, ret |-> cv_pwm_duty[n]]
    /\ UNCHANGED <<ledVars, muxVars, dacVars, ioVars, lastWritten>>
cv_out_getter(n) ==
    /\ Constructed
    /\ last' = [op |-> "cv_out_get", n |-> n, ret |-> 65535 - cv_pwm_duty[n]]
    /\ UNCHANGED <<ledVars, muxVars, dacVars, ioVars, lastWritten>>

cv_1_out_get == cv_out_getter(1)
cv_2_out_get == cv_out_getter(2)

\* fault: the level is written without the inversion
pulse_out_setter_uninverted(n, value) ==
    /\ Constructed
    /\ IF pulse_out_pin[n].deinited THEN
           /\ last' = [op |-> "pulse_out_set", n |-> n, arg |-> value, raised |-> TRUE]
           /\ UNCHANGED <<pulse_out_pin, lastWritten>>
       ELSE
           /\ pulse_out_pin' = [pulse_out_pin EXCEPT ![n].value = value]
           /\ lastWritten' = [lastWritten EXCEPT ![PulseOutName(n)] = value]
           /\ last' = [op |-> "pulse_out_set", n |-> n, arg |-> value, raised |-> FALSE]
    /\ UNCHANGED <<ledVars, muxVars, dacVars, cv_pwm_duty, audio>>
\* digitalio: every access to a deinitialised DigitalInOut raises ValueError
pulse_out_setter(n, value) ==
    /\ Constructed
    /\ IF pulse_out_pin[n].deinited THEN
           /\ last' = [op |-> "pulse_out_set", n |-> n, arg |-> value, raised |-> TRUE]
           /\ UNCHANGED <<pulse_out_pin, lastWritten>>
       ELSE
           /\ pulse_out_pin' = [pulse_out_pin EXCEPT ![n].value = ~value]
           /\ lastWritten' = [lastWritten EXCEPT ![PulseOutName(n)] = value]
           /\ last' = [op |-> "pulse_out_set", n |-> n, arg |-> value, raised |-> FALSE]
    /\ UNCHANGED <<ledVars, muxVars, dacVars, cv_pwm_duty, audio>>

pulse_1_out_set == \E value \in BOOLEAN : pulse_out_setter(1, value)
pulse_2_out_set == \E value \in BOOLEAN : pulse_out_setter(2, value)

pulse_out_getter(n) ==
    /\ Constructed
    /\ IF pulse_out_pin[n].deinited THEN
           last' = [op |-> "pulse_out_get", n |-> n, ret |-> FALSE, raised |-> TRUE]
       ELSE
           last' = [op |-> "pulse_out_get", n |-> n,
                    ret |-> ~pulse_out_pin[n].value, raised |-> FALSE]
    /\ UNCHANGED <<ledVars, muxVars, dacVars, ioVars, lastWritten>>

pulse_1_out_get == pulse_out_getter(1)
pulse_2_out_get == pulse_out_getter(2)

\* level is the physical level of the pulled-up input line at the read
pulse_in(n) ==
    /\ Constructed
    /\ \E level \in BOOLEAN :
         last' = [op |-> "pulse_in", n |-> n, level |-> level, ret |-> ~level]
    /\ UNCHANGED <<ledVars, muxVars, dacVars, ioVars, lastWritten>>

pulse_1_in == pulse_in(1)
pulse_2_in == pulse_in(2)

\* fault: the pins are not released
pulse_outs_to_audio_keeping_pins ==
    /\ Constructed
    /\ audio' = IF audio = "absent" THEN "created" ELSE "recreated"
    /\ last' = [op |-> "pulse_outs_to_audio", had_audio |-> audio # "absent"]
    /\ UNCHANGED <<ledVars, muxVars, dacVars, cv_pwm_duty, pulse_out_pin, lastWritten>>
\* deinit() of a deinitialised pin does nothing; the attribute is never rebound
pulse_outs_to_audio ==
    /\ Constructed
    /\ pulse_out_pin' = [n \in 1..2 |-> [pulse_out_pin[n] EXCEPT !.deinited = TRUE]]
    /\ audio' = IF audio = "absent" THEN "created" ELSE "recreated"
    /\ last' = [op |-> "pulse_outs_to_audio", had_audio |-> audio # "absent"]
    /\ UNCHANGED <<ledVars, muxVars, dacVars, cv_pwm_duty, lastWritten>>

----------------------------------------------------------------------------
(* LED drive: gamma_correct and the demo's rect_scale.                     *)

\* x * x as <<a, b>> with x * x = a * 65536 + b and 0 <= b < 65536; the
\* product is built from the two bytes of |x| so that no intermediate
\* exceeds 31 bits
SquareSplit(x) ==
    LET m   == IF x < 0 THEN -x ELSE x
        h   == m \div 256
        l   == m % 256
        mid == 2 * h * l * 256 + l * l
    IN  <<h * h + mid \div 65536, mid % 65536>>

\* int((x*x)/65535): a * 65536 + b = a * 65535 + (a + b); the true division
\* rounds to a double that lies on the same side of every integer as the
\* exact quotient, so int() gives its floor
SquareOver65535(x) ==
    LET s == SquareSplit(x)
    IN  s[1] + (s[1] + s[2]) \div 65535

\* fault: the divisor is 65536
gamma_correct_by_65536(x) == Min(Max(SquareSplit(x)[1], 0), 65535)
gamma_correct(x) == Min(Max(SquareOver65535(x), 0), 65535)

\* fault: the offset is not removed before doubling
rect_scale_unshifted(raw) == IF raw > 32768 THEN raw * 2 ELSE 0
rect_scale(raw) == IF raw > 32768 THEN (raw - 32768) * 2 ELSE 0

\* a call of the library function with any argument
gamma_correct_call ==
    /\ Constructed
    /\ \E x \in GammaInputs :
         last' = [op |-> "gamma_correct", x |-> x, ret |-> gamma_correct(x)]
    /\ UNCHANGED <<ledVars, muxVars, dacVars, ioVars, lastWritten>>

led_assign(i, bright) ==
    /\ leds' = [leds EXCEPT ![i] = gamma_correct(bright)]
    /\ led_bright' = [led_bright EXCEPT ![i] = bright]

\* LEDs 0..3 of the demo: raw is the value read from audio_1_in, audio_2_in,
\* cv_1_in or cv_2_in; up tells that the switch reads above 50000
led_level_assign ==
    /\ Constructed
    /\ \E i \in 0..3, up \in BOOLEAN, raw \in LedRaws :
         LET bright == IF up THEN rect_scale(raw) ELSE 0
         IN  /\ led_assign(i, bright)
             /\ last' = [op |-> "led_level", i |-> i, up |-> up, raw |-> raw,
                         bright |-> bright]
    /\ UNCHANGED <<muxVars, dacVars, ioVars, lastWritten>>

\* LEDs 4 and 5 of the demo: p is the state read from pulse_1_in or pulse_2_in
led_pulse_assign ==
    /\ Constructed
    /\ \E i \in 4..5, up \in BOOLEAN, p \in BOOLEAN :
         LET bright == IF up /\ p THEN 65535 ELSE 0
         IN  /\ led_assign(i, bright)
             /\ last' = [op |-> "led_pulse", i |-> i, up |-> up, p |-> p,
                         bright |-> bright]
    /\ UNCHANGED <<muxVars, dacVars, ioVars, lastWritten>>

----------------------------------------------------------------------------
(* State after the field assignments of __init__ (lines 88-134).           *)

InitOutputs ==
    /\ audio_out_value = [n \in 1..2 |-> 0]
    /\ spi_locked = FALSE
    /\ dac_cs = TRUE
    /\ dac_reg = [c \in 0..1 |-> NoCode]
    /\ dac_req = [n \in 1..2 |-> NoCode]
    /\ dac_events = <<>>
    /\ cv_pwm_duty = [n \in 1..2 |-> CVzeroPoint]
    /\ pulse_out_pin = [n \in 1..2 |-> [value |-> TRUE, deinited |-> FALSE]]
    /\ audio = "absent"
    /\ leds = [i \in 0..5 |-> 0]
    /\ led_bright = [i \in 0..5 |-> 0]
    /\ lastWritten = [audio_1_out |-> 0, audio_2_out |-> 0,
                      cv_1_out |-> 65535 - CVzeroPoint, cv_2_out |-> 65535 - CVzeroPoint,
                      pulse_1_out |-> FALSE, pulse_2_out |-> FALSE]

\* at the start of the priming loop of __init__ (line 136)
InitMux ==
    /\ InitOutputs
    /\ analog = [i \in Slots |-> 0]
    /\ mux_count = 0
    /\ mux_A = 0
    /\ mux_B = 0
    /\ ctor_i = 0
    /\ nUpdates = 0
    /\ serviceLog = <<>>
    /\ last = [op |-> "__init__"]

\* the slots after the four priming calls saw v1 on bus 1 and v2 on bus 2
Primed(v1, v2) ==
    mux_read(mux_read(mux_read(mux_read([i \in Slots |-> 0],
        0, v1, v2), 1, v1, v2), 2, v1, v2), 3, v1, v2)

\* when __init__ returns
InitRun ==
    /\ InitOutputs
    /\ \E v1 \in Mux1Samples, v2 \in Mux2Samples : analog = Primed(v1, v2)
    /\ mux_count = 0
    /\ mux_A = 1
    /\ mux_B = 1
    /\ ctor_i = PrimeCalls
    /\ nUpdates = PrimeCalls
    /\ serviceLog = [k \in 1..PrimeCalls |-> {Bus1Slot(k - 1), Bus2Slot(k - 1)}]
    /\ last = [op |-> "__init__"]

NextMux ==
    \/ update
    \/ knob_main
    \/ knob_x
    \/ knob_y
    \/ switch
    \/ cv_1_in
    \/ cv_2_in

NextDac ==
    \/ audio_1_out_set
    \/ audio_2_out_set
    \/ audio_1_out_get
    \/ audio_2_out_get
    \/ audio_1_in
    \/ audio_2_in
    \/ spi_try_lock
    \/ spi_unlock

NextIO ==
    \/ cv_1_out_set
    \/ cv_2_out_set
    \/ cv_1_out_get
    \/ cv_2_out_get
    \/ pulse_1_out_set
    \/ pulse_2_out_set
    \/ pulse_1_out_get
    \/ pulse_2_out_get
    \/ pulse_1_in
    \/ pulse_2_in
    \/ pulse_outs_to_audio

SpecMux == InitMux /\ [][NextMux]_vars
SpecDac == InitRun /\ [][NextDac]_vars
\* a polling loop on a Computer whose priming calls read 0 and 3
InitLoop ==
    /\ InitRun
    /\ analog = Primed(0, 3)

NextLoop ==
    \/ update
    \/ knob_main
    \/ knob_x
    \/ knob_y
    \/ switch
    \/ cv_1_in
    \/ cv_2_in
    \/ audio_1_in
    \/ audio_2_in
    \/ pulse_1_in
    \/ pulse_2_in
    \/ audio_1_out_loop
    \/ audio_2_out_loop
    \/ audio_1_out_get
    \/ audio_2_out_get
    \/ cv_1_out_loop
    \/ cv_2_out_loop
    \/ cv_1_out_get
    \/ cv_2_out_get
    \/ pulse_1_out_set
    \/ pulse_2_out_set
    \/ pulse_1_out_get
    \/ pulse_2_out_get

NextLed ==
    \/ gamma_correct_call
    \/ led_level_assign
    \/ led_pulse_assign

SpecLed == InitRun /\ [][NextLed]_vars
SpecLoop == InitLoop /\ [][NextLoop]_vars
SpecIO  == InitRun /\ [][NextIO]_vars

----------------------------------------------------------------------------
(* Properties of the MuxScanner and the SmoothingFilter (SpecMux).         *)

IsUpdate == last.op = "update"

\* the two slots the channel table assigns to a phase: <<bus 1 slot, bus 2 slot>>
PhaseTable(p) ==
    IF p = 0 THEN <<4, 2>>
    ELSE IF p = 1 THEN <<5, 3>>
    ELSE IF p = 2 THEN <<6, 2>>
    ELSE <<7, 3>>

\* <<old, raw, new>> of the two slots the most recent update() serviced
Serviced ==
    LET pair == PhaseTable(last.phase)
    IN  { <<last.old[pair[1]], last.raw1, analog[pair[1]]>>,
          <<last.old[pair[2]], last.raw2, analog[pair[2]]>> }

\* C1: the phase starts at 0, equals the number of update() calls made so
\* far (priming calls included) modulo 4, advances by exactly one step
\* modulo 4 in every update(), and is changed by no other operation.
C1_PhaseSequence ==
    /\ [](mux_count = nUpdates % 4)
    /\ [][ /\ (nUpdates' = nUpdates + 1) => (mux_count' = (mux_count + 1) % 4)
           /\ (nUpdates' = nUpdates) => (mux_count' = mux_count)
           /\ (mux_count' # mux_count) => (last'.op = "update") ]_vars

\* C1 witness: a fifth update() has wrapped the phase around to 1.
C1_Witness == nUpdates = 5 /\ mux_count = 1 /\ IsUpdate

\* C2: an update() at phase p writes the first slot of the table's pair for
\* p from ADC bus 1 and the second from ADC bus 2, and leaves every other
\* slot unchanged; slots 0 and 1 are never changed.
C2_PhaseWritesItsSlots ==
    /\ analog[0] = 0
    /\ analog[1] = 0
    /\ IsUpdate =>
         LET pair == PhaseTable(last.phase)
         IN  /\ analog[pair[1]] = Smooth(last.old[pair[1]], last.raw1)
             /\ analog[pair[2]] = Smooth(last.old[pair[2]], last.raw2)
             /\ \A i \in Slots : i \notin {pair[1], pair[2]} => analog[i] = last.old[i]

\* C2 witness: an update() at phase 2 moved slots 6 and 2.
C2_Witness ==
    /\ IsUpdate
    /\ last.phase = 2
    /\ analog[6] # last.old[6]
    /\ analog[2] # last.old[2]

\* C3: the value written to a serviced slot lies between min(old, raw) and
\* max(old, raw) inclusive, and every slot stays in [0, 65535].
C3_BetweenOldAndRaw ==
    /\ \A i \in Slots : analog[i] \in 0..65535
    /\ IsUpdate =>
         \A t \in Serviced : Min(t[1], t[2]) <= t[3] /\ t[3] <= Max(t[1], t[2])

\* the convex combination (3*old + 7*raw)/10 rounded to the nearest integer
\* (either neighbour on a tie)
RoundedCombination(old, raw) ==
    LET n == 3 * old + 7 * raw
    IN  IF n % 10 < 5 THEN {n \div 10}
        ELSE IF n % 10 > 5 THEN {n \div 10 + 1}
        ELSE {n \div 10, n \div 10 + 1}

\* C4 as stated: the new slot value is round(s*old + (1-s)*raw), s = 0.3.
C4_RoundsToNearest ==
    IsUpdate => \A t \in Serviced : t[3] \in RoundedCombination(t[1], t[2])

\* C4 amended: the new slot value is the convex combination with s = 0.3
\* truncated toward zero: floor((3*old + 7*raw)/10), or one less than that
\* when 3*old + 7*raw is a multiple of 10.
C4_Truncates ==
    IsUpdate =>
        \A t \in Serviced :
            LET n == 3 * t[1] + 7 * t[2]
            IN  /\ t[3] <= n \div 10
                /\ t[3] >= n \div 10 - 1
                /\ (n % 10 # 0) => (t[3] = n \div 10)

\* C4 witness: a serviced slot whose combination has a fraction above one
\* half was truncated downwards.
C4_Witness ==
    /\ IsUpdate
    /\ \E t \in Serviced :
         LET n == 3 * t[1] + 7 * t[2]
         IN  n % 10 > 5 /\ t[3] = n \div 10

----------------------------------------------------------------------------
(* Properties of the DacDriver and the audio scaling (SpecDac).            *)

IsAudioSet == last.op = "audio_out_set"

\* positions of the events of one kind in the most recent dac_write
EventsOf(kind) == {i \in 1..Len(dac_events) : dac_events[i].ev = kind}

\* C5: an audio write that finds the bus lock unavailable transmits
\* nothing, does not touch chip-select, raises nothing and tries the lock
\* once, yet the value read back from that output is the written one; the
\* DAC registers change only in a write that gets the lock.
C5_DropOnContention ==
    /\ []((IsAudioSet /\ last.locked) =>
            /\ ~last.raised
            /\ EventsOf("write") = {}
            /\ EventsOf("cs") = {}
            /\ Cardinality(EventsOf("try_lock")) = 1
            /\ audio_out_value[last.n] = last.arg)
    /\ [](last.op = "audio_out_get" => last.ret = lastWritten[AudioOutName(last.n)])
    /\ [][ /\ (last'.op = "audio_out_set" /\ last'.locked) =>
                (dac_reg' = dac_reg /\ dac_cs' = dac_cs)
           /\ (dac_reg' # dac_reg) =>
                (last'.op = "audio_out_set" /\ ~last'.locked) ]_vars

\* C5 witness: a write was dropped while the register of its channel holds
\* the code of an earlier successful write of another value.
C5_Witness ==
    /\ IsAudioSet
    /\ last.locked
    /\ last.arg \in 0..65535
    /\ dac_reg[last.n - 1] # NoCode
    /\ dac_reg[last.n - 1] # 4095 - (last.arg \div 16)

\* C6: a successful write of an in-range value sends exactly two bytes,
\* high byte then low byte of config + code (the code occupies the twelve
\* bits the configuration leaves zero), config = 0b0011000000000000 = 12288
\* for audio 1 and 0b1011000000000000 = 45056 for audio 2; a raw audio-1
\* sample of 20000 reads as 45535, and audio_1_out = 45535 sends
\* 12288 + 1250 = 13538 = 52 * 256 + 226.
C6_FrameBytes ==
    /\ (IsAudioSet /\ ~last.locked /\ last.arg \in 0..65535) =>
         LET code  == 4095 - (last.arg \div 16)
             frame == (IF last.n = 1 THEN 12288 ELSE 45056) + code
         IN  /\ Cardinality(EventsOf("write")) = 1
             /\ \A i \in EventsOf("write") :
                  dac_events[i].arg = <<frame \div 256, frame % 256>>
    /\ (last.op = "audio_in" /\ last.n = 1 /\ last.raw = 20000) => last.ret = 45535
    /\ (IsAudioSet /\ ~last.locked /\ last.n = 1 /\ last.arg = 45535) =>
         \A i \in EventsOf("write") : dac_events[i].arg = <<52, 226>>

\* C6 witness: audio_1_out = 45535 was transmitted as 52, 226.
C6_Witness ==
    /\ IsAudioSet
    /\ ~last.locked
    /\ last.n = 1
    /\ last.arg = 45535
    /\ \E i \in EventsOf("write") : dac_events[i].arg = <<52, 226>>

\* the outputs whose setter ran with a value in [0, 65535]
InRangeRequests ==
    {n \in 1..2 : dac_req[n] # NoCode /\ audio_out_value[n] \in 0..65535}

\* C7: writing v in [0, 65535] requests the code 4095 - floor(v/16), which
\* is in [0, 4095]; values with the same floor(v/16) request the same code,
\* and the code does not increase with v.
C7_AudioCode ==
    /\ \A n \in InRangeRequests :
         /\ dac_req[n] = 4095 - (audio_out_value[n] \div 16)
         /\ dac_req[n] \in 0..4095
    /\ \A n, m \in InRangeRequests :
         /\ (audio_out_value[n] \div 16 = audio_out_value[m] \div 16)
               => (dac_req[n] = dac_req[m])
         /\ (audio_out_value[n] <= audio_out_value[m]) => (dac_req[n] >= dac_req[m])

\* C7 witness: 0 and 15 were written to the two outputs and requested the
\* same code.
C7_Witness ==
    /\ InRangeRequests = {1, 2}
    /\ audio_out_value[1] = 0
    /\ audio_out_value[2] = 15
    /\ dac_req[1] = dac_req[2]

----------------------------------------------------------------------------
(* Properties of the CV outputs and the pulse lines (SpecIO).              *)

\* C8: writing v in [0, 65535] to a CV output sets its duty to 65535 - v
\* and the property reads back v; a value below 0 gives duty 65535, a value
\* above 65535 gives duty 0, so the duty is always in [0, 65535].
C8_CvRoundTrip ==
    /\ \A n \in 1..2 : cv_pwm_duty[n] \in 0..65535
    /\ (last.op = "cv_out_set") =>
         LET v == last.arg
             d == cv_pwm_duty[last.n]
         IN  /\ (v \in 0..65535) => (d = 65535 - v /\ 65535 - d = v)
             /\ (v < 0) => (d = 65535)
             /\ (v > 65535) => (d = 0)
    /\ (last.op = "cv_out_get" /\ lastWritten[CvOutName(last.n)] \in 0..65535) =>
         last.ret = lastWritten[CvOutName(last.n)]

\* C8 witness: 65535 was written, the duty is 0 and the read returned 65535.
C8_Witness ==
    /\ last.op = "cv_out_get"
    /\ lastWritten[CvOutName(last.n)] = 65535
    /\ cv_pwm_duty[last.n] = 0
    /\ last.ret = 65535

Converted == audio # "absent"

\* C10: once pulse_outs_to_audio() has run, both pulse-output pins are
\* released and stay released, every later read or write of pulse_1_out or
\* pulse_2_out fails, and no later operation (a repeated conversion
\* included) changes the pins.
C10_PulseOutsRetired ==
    /\ [](Converted => \A n \in 1..2 : pulse_out_pin[n].deinited)
    /\ []((Converted /\ last.op \in {"pulse_out_set", "pulse_out_get"}) => last.raised)
    /\ [][Converted => (Converted' /\ pulse_out_pin' = pulse_out_pin)]_vars

\* C10 witness: after a repeated conversion a write to a pulse output failed.
C10_Witness ==
    /\ audio = "recreated"
    /\ last.op = "pulse_out_set"
    /\ last.raised

----------------------------------------------------------------------------
(* Further properties of the MuxScanner (SpecMux).                         *)

\* how many of the four update() calls ending with call k wrote the slot
ServicesInWindow(slot, k) ==
    Cardinality({i \in (k - 3)..k : slot \in serviceLog[i]})

\* C11: any four consecutive update() calls service slots 2 and 3 twice
\* each and slots 4, 5, 6 and 7 once each; the constructor makes exactly
\* four priming calls, so when it returns the phase is 0 and every slot
\* 2..7 has been serviced.
C11_ServiceCounts ==
    /\ Len(serviceLog) = nUpdates
    /\ \A k \in 4..Len(serviceLog) :
         /\ ServicesInWindow(2, k) = 2
         /\ ServicesInWindow(3, k) = 2
         /\ \A slot \in 4..7 : ServicesInWindow(slot, k) = 1
    /\ (ctor_i < 4) => (nUpdates = ctor_i)
    /\ (ctor_i = 4) => (nUpdates >= 4)
    /\ (nUpdates = 4) =>
         /\ ctor_i = 4
         /\ mux_count = 0
         /\ \A slot \in 2..7 : \E i \in 1..4 : slot \in serviceLog[i]

\* C11 witness: six calls were made, so windows that start after the first
\* and the second call have been counted.
C11_Witness ==
    /\ nUpdates = 6
    /\ Len(serviceLog) = 6
    /\ ServicesInWindow(2, 6) = 2
    /\ ServicesInWindow(7, 6) = 1

\* positions of the steps of one kind in the most recent update()
StepsOf(kind) == {i \in 1..Len(last.events) : last.events[i].ev = kind}

\* C15: in every update() both select lines are set before either bus is
\* sampled, line A to bit 0 and line B to bit 1 of the phase whose slot pair
\* the call writes, and the phase counter is assigned after both samples
\* are stored.
C15_SelectBeforeSample ==
    IsUpdate =>
        /\ Cardinality(StepsOf("mux_A")) = 1
        /\ Cardinality(StepsOf("mux_B")) = 1
        /\ Cardinality(StepsOf("sample")) = 2
        /\ Cardinality(StepsOf("store")) = 2
        /\ Cardinality(StepsOf("mux_count")) = 1
        /\ \A a \in StepsOf("mux_A") \cup StepsOf("mux_B") :
             \A s \in StepsOf("sample") : a < s
        /\ \A a \in StepsOf("mux_A") : last.events[a].arg = <<last.phase % 2>>
        /\ \A b \in StepsOf("mux_B") : last.events[b].arg = <<(last.phase \div 2) % 2>>
        /\ mux_A = last.phase % 2
        /\ mux_B = (last.phase \div 2) % 2
        /\ {last.events[s].arg[1] : s \in StepsOf("store")}
             = {PhaseTable(last.phase)[1], PhaseTable(last.phase)[2]}
        /\ \A c \in StepsOf("mux_count") : \A s \in StepsOf("store") : s < c
        /\ mux_count = (last.phase + 1) % 4

\* C15 witness: an update() at phase 2 set A low and B high, sampled, stored
\* into slots 6 and 2 and moved the phase to 3.
C15_Witness ==
    /\ IsUpdate
    /\ last.phase = 2
    /\ mux_A = 0
    /\ mux_B = 1
    /\ {last.events[s].arg[1] : s \in StepsOf("store")} = {6, 2}
    /\ mux_count = 3

----------------------------------------------------------------------------
(* Further properties of the DacDriver (SpecDac).                          *)

\* C12 as stated: a DAC write that fails to get the bus lock reports
\* (logs) the failure, skips the transfer and raises nothing.
C12_FailureReported ==
    (IsAudioSet /\ last.locked) =>
        /\ EventsOf("print") # {}
        /\ EventsOf("write") = {}
        /\ ~last.raised

\* C12 amended: a DAC write that fails to get the bus lock does nothing but
\* the one try_lock call: it reports nothing, transmits nothing and raises
\* nothing, and it leaves the lock with its holder and the slots, the phase,
\* chip-select, the DAC registers, the other audio value and the CV and
\* pulse outputs as they were.
C12_FailureSilent ==
    /\ []((IsAudioSet /\ last.locked) =>
            /\ dac_events = <<Event("try_lock", <<0>>)>>
            /\ EventsOf("print") = {}
            /\ ~last.raised
            /\ spi_locked)
    /\ [][(last'.op = "audio_out_set" /\ last'.locked) =>
            /\ UNCHANGED <<muxVars, ioVars, spi_locked, dac_cs, dac_reg>>
            /\ audio_out_value'[3 - last'.n] = audio_out_value[3 - last'.n]
            /\ dac_req'[3 - last'.n] = dac_req[3 - last'.n]]_vars

\* C12 witness: audio 2 was written while the bus was locked, after a write
\* that reached the DAC.
C12_Witness ==
    /\ IsAudioSet
    /\ last.locked
    /\ last.n = 2
    /\ dac_events = <<Event("try_lock", <<0>>)>>
    /\ \E c \in 0..1 : dac_reg[c] # NoCode

----------------------------------------------------------------------------
(* Properties of the LED drive (SpecLed).                                  *)

\* floor(x * x / 65535) for x in 0..65535, from x * x = 65535 * x - x * (65535 - x)
FloorSquareOver65535(x) == x - ((x * (65535 - x) + 65534) \div 65535)

\* the <<argument, result>> pairs of gamma_correct the state records
GammaPairs ==
    {<<led_bright[i], leds[i]>> : i \in 0..5}
        \cup (IF last.op = "gamma_correct" THEN {<<last.x, last.ret>>} ELSE {})

\* C13: for x in [0, 65535] gamma_correct(x) is floor(x * x / 65535), computed
\* without overflow and clamped to [0, 65535]; gamma_correct(0) = 0,
\* gamma_correct(65535) = 65535, and the function is monotonic non-decreasing.
C13_GammaCorrect ==
    /\ \A p \in GammaPairs :
         p[1] \in 0..65535 =>
            /\ p[2] = FloorSquareOver65535(p[1])
            /\ p[2] \in 0..65535
            /\ (p[1] = 0) => (p[2] = 0)
            /\ (p[1] = 65535) => (p[2] = 65535)
    /\ \A p, q \in GammaPairs :
         (p[1] \in 0..65535 /\ q[1] \in 0..65535 /\ p[1] <= q[1]) => p[2] <= q[2]

\* C13 witness: gamma_correct(46341), whose square needs 32 bits, returned
\* 32768 while LED 4 is fully on and LED 0 shows brightness 14464 as 3192.
C13_Witness ==
    /\ last.op = "gamma_correct"
    /\ last.x = 46341
    /\ last.ret = 32768
    /\ led_bright[4] = 65535
    /\ leds[4] = 65535
    /\ led_bright[0] = 14464
    /\ leds[0] = 3192

\* C14: rect_scale(r) is 0 for r <= 32768 and (r - 32768) * 2 above; for r in
\* [0, 65535] it is at most 65534, so the brightness handed to gamma_correct
\* stays in the 16-bit range.
C14_RectScale ==
    /\ (last.op = "led_level" /\ last.up) =>
         /\ (last.raw <= 32768) => (last.bright = 0)
         /\ (last.raw > 32768) => (last.bright = 2 * last.raw - 65536)
         /\ (last.raw \in 0..65535) => (last.bright \in 0..65534)
    /\ \A i \in 0..3 : led_bright[i] \in 0..65534
    /\ \A i \in 0..5 : led_bright[i] \in 0..65535

\* C14 witness: LED 2 was assigned from a raw reading of 65535 with the
\* switch up: brightness 65534, duty cycle 65533.
C14_Witness ==
    /\ last.op = "led_level"
    /\ last.up
    /\ last.i = 2
    /\ last.raw = 65535
    /\ led_bright[2] = 65534
    /\ leds[2] = 65533

\* the bus events of the most recent dac_write, by kind, in program order
EventKinds == [i \in 1..Len(dac_events) |-> dac_events[i].ev]

\* C16: dac_write transmits only while it holds the lock and chip-select is
\* low, in the order chip-select low, two bytes, chip-select high, unlock;
\* when it returns, after a transfer or after a skip, it no longer holds the
\* lock and chip-select is high.
C16_BusFraming ==
    /\ [](dac_cs = TRUE)
    /\ [](IsAudioSet =>
            /\ \A w \in EventsOf("write") :
                 /\ Len(dac_events[w].arg) = 2
                 /\ \E l \in EventsOf("try_lock") :
                      /\ l < w
                      /\ dac_events[l].arg = <<1>>
                      /\ \A u \in EventsOf("unlock") : u > w
                 /\ \E c \in EventsOf("cs") :
                      /\ c < w
                      /\ dac_events[c].arg = <<0>>
                      /\ \A d \in EventsOf("cs") : (d # c) => (d > w)
            /\ (~last.locked /\ ~last.raised) =>
                 /\ EventKinds = <<"try_lock", "cs", "write", "cs", "unlock">>
                 /\ dac_events[2].arg = <<0>>
                 /\ dac_events[4].arg = <<1>>
            /\ last.locked => (EventsOf("unlock") = {} /\ EventsOf("cs") = {}))
    /\ [][(last'.op = "audio_out_set") =>
            (spi_locked' = spi_locked /\ dac_cs' = TRUE)]_vars

\* C16 witness: audio 2 = 45535 went out on a free bus as the bytes 180, 226
\* between chip-select low and high, and the bus is free afterwards.
C16_Witness ==
    /\ IsAudioSet
    /\ last.n = 2
    /\ ~last.locked
    /\ Len(dac_events) = 5
    /\ dac_events[3] = Event("write", <<180, 226>>)
    /\ dac_cs
    /\ ~spi_locked

\* C20: of every integer code handed to dac_write, codes outside [0, 4095]
\* included, only the low twelve bits enter the frame: the top four bits of
\* the frame are the configuration bits (0011 for channel 0, 1011 for
\* channel 1) and both bytes lie in [0, 255].
C20_TwelveBitMask ==
    (IsAudioSet /\ ~last.locked) =>
        /\ ~last.raised
        /\ \A w \in EventsOf("write") :
             LET data  == dac_events[w].arg
                 frame == data[1] * 256 + data[2]
             IN  /\ data[1] \in 0..255
                 /\ data[2] \in 0..255
                 /\ frame \div 4096 = (IF last.n = 1 THEN 3 ELSE 11)
                 /\ frame % 4096 = dac_req[last.n] % 4096
        /\ EventsOf("write") # {}

\* C20 witness: audio 1 = 65536 handed the code -1 to dac_write, and the
\* frame 0x3FFF went out as the bytes 63, 255.
C20_Witness ==
    /\ IsAudioSet
    /\ ~last.locked
    /\ last.n = 1
    /\ last.arg = 65536
    /\ dac_req[1] = -1
    /\ dac_events[3] = Event("write", <<63, 255>>)

----------------------------------------------------------------------------
(* Convergence of the SmoothingFilter (SpecMux).                           *)

Dist(a, b) == IF a < b THEN b - a ELSE a - b

\* C18: a slot serviced with a raw sample r that is held at r from then on
\* never moves away from r and never passes it, and a value the slot keeps
\* is within 1 of r.
C18_MovesTowardRaw ==
    IsUpdate =>
        \A t \in Serviced :
            /\ Dist(t[3], t[2]) <= Dist(t[1], t[2])
            /\ (t[1] <= t[2]) => (t[3] <= t[2])
            /\ (t[1] >= t[2]) => (t[3] >= t[2])
            /\ (t[3] = t[1]) => (Dist(t[1], t[2]) <= 1)

----------------------------------------------------------------------------
(* Properties of the facade under a polling loop (SpecLoop).               *)

\* logical and physical state of each of the six outputs
OutputState ==
    [audio_1_out |-> <<audio_out_value[1], dac_reg[0]>>,
     audio_2_out |-> <<audio_out_value[2], dac_reg[1]>>,
     cv_1_out    |-> <<cv_pwm_duty[1]>>,
     cv_2_out    |-> <<cv_pwm_duty[2]>>,
     pulse_1_out |-> <<pulse_out_pin[1]>>,
     pulse_2_out |-> <<pulse_out_pin[2]>>]

\* the outputs the call recorded in rec assigns
WrittenBy(rec) ==
    IF rec.op = "audio_out_set" THEN {AudioOutName(rec.n)}
    ELSE IF rec.op = "cv_out_set" THEN {CvOutName(rec.n)}
    ELSE IF rec.op = "pulse_out_set" THEN {PulseOutName(rec.n)}
    ELSE {}

\* C17: under any interleaving of update() and in-domain output writes each
\* of the six outputs reads back the value last written to it (or its
\* construction-time value), a write to one output changes neither the
\* logical nor the physical state of any other, and a CV or pulse write is
\* on its line when the write returns.
C17_OutputsIndependent ==
    /\ [](last.op = "audio_out_get" => last.ret = lastWritten[AudioOutName(last.n)])
    /\ [](last.op = "cv_out_get" => last.ret = lastWritten[CvOutName(last.n)])
    /\ [](last.op = "pulse_out_get" =>
            (~last.raised /\ last.ret = lastWritten[PulseOutName(last.n)]))
    /\ [](\A n \in 1..2 :
            /\ cv_pwm_duty[n] = 65535 - lastWritten[CvOutName(n)]
            /\ pulse_out_pin[n].value = ~lastWritten[PulseOutName(n)])
    /\ [][\A name \in DOMAIN OutputState :
            (name \notin WrittenBy(last')) =>
                /\ OutputState'[name] = OutputState[name]
                /\ lastWritten'[name] = lastWritten[name]]_vars

\* C17 witness: after a further update(), audio 1 reads back 45535 while
\* audio 2 and CV 2 still hold their construction-time state, CV 1 holds
\* 20000 and pulse 2 is active.
C17_Witness ==
    /\ last.op = "audio_out_get"
    /\ last.n = 1
    /\ last.ret = 45535
    /\ nUpdates > PrimeCalls
    /\ lastWritten["audio_2_out"] = 0
    /\ dac_reg[1] = NoCode
    /\ lastWritten["cv_1_out"] = 20000
    /\ cv_pwm_duty[2] = CVzeroPoint
    /\ lastWritten["pulse_2_out"] = TRUE

SlotReads == {"knob_main", "knob_x", "knob_y", "switch", "cv_1_in", "cv_2_in"}

\* C19: the channel table and the phase are changed only by update(); every
\* input read and output write leaves them as they are; knob_main, knob_x,
\* knob_y and switch return slots 4, 5, 6 and 7, cv_1_in and cv_2_in return
\* 65535 minus slots 2 and 3, and a repeated read returns the same value.
C19_TableOwnedByUpdate ==
    /\ [][(analog' # analog \/ mux_count' # mux_count) =>
            (last'.op = "update" /\ nUpdates' = nUpdates + 1)]_vars
    /\ [][(last'.op # "update") => UNCHANGED <<analog, mux_count>>]_vars
    /\ [](/\ (last.op = "knob_main") => (last.ret = analog[4])
          /\ (last.op = "knob_x") => (last.ret = analog[5])
          /\ (last.op = "knob_y") => (last.ret = analog[6])
          /\ (last.op = "switch") => (last.ret = analog[7])
          /\ (last.op = "cv_1_in") => (last.ret = 65535 - analog[2])
          /\ (last.op = "cv_2_in") => (last.ret = 65535 - analog[3]))
    /\ [][(last.op \in SlotReads /\ last'.op = last.op) =>
            (last'.ret = last.ret)]_vars

\* C19 witness: cv_1_in is read after two further update() calls moved slot
\* 2 from 2 to 4 and after a CV write: it returns 65531.
C19_Witness ==
    /\ last.op = "cv_1_in"
    /\ nUpdates = PrimeCalls + 2
    /\ analog[2] = 4
    /\ last.ret = 65531
    /\ lastWritten["cv_1_out"] = 20000

====
